---- MODULE Spec2Model ----
(***************************************************************************)
(* ebacktrace: an error wrapper `$name<E>` (define_error!) that carries a   *)
(* payload, a description and an optional, reference-counted Backtrace     *)
(* whose symbol resolution and rendering are deferred to the first         *)
(* Debug/Display formatting and cached in a RefCell.                       *)
(*                                                                         *)
(* Texts are sequences of one-character strings, so that "contains",       *)
(* "starts with" and "is exactly" are checked on the characters written.   *)
(* Option<T> is a sequence of length 0 (None) or 1 (Some(x)).              *)
(***************************************************************************)
EXTENDS Integers, Sequences, FiniteSets, TLC

\* ---------------------------------------------------------------- bounds
\* wrapped errors constructed or cloned in one run
MaxErrs == 2
\* deepest call stack a capture records
MaxFrames == 1
\* resolution attempts on one Backtrace that a panic cuts short
MaxFaults == 1

VARIABLES
    RUST_BACKTRACE,   \* the process environment variable: None or Some(value)
    force_backtrace,  \* cargo feature, fixed at build time
    derive_display,   \* cargo feature, fixed at build time
    errs,             \* the wrapped errors, by id: [err, desc, backtrace, parent,
                      \* alive]
    arcs,             \* the Arc<Backtrace> allocations, by id
    strong,           \* per Arc: its strong count
    shown,            \* per wrapped error: the texts of its latest two Display calls
                      \* that returned Ok, oldest first
    rendered,         \* per Backtrace: the texts that Display calls on the Backtrace
                      \* itself returned with Ok
    panics,           \* the panics raised by the crate's own code, by message
    last              \* the outcome of the latest formatting call on a wrapped
                      \* error, where the caller looks at it (None before)

vars ==
    <<RUST_BACKTRACE, force_backtrace, derive_display, errs, arcs, strong, shown, rendered,
      panics, last>>

\* the build configuration and the environment, which no formatting call touches
config == <<RUST_BACKTRACE, force_backtrace, derive_display>>

\* ------------------------------------------------------------ Option, text
None == <<>>
Some(x) == <<x>>

RECURSIVE Flatten(_)
Flatten(pieces) ==
    IF pieces = <<>> THEN <<>> ELSE Head(pieces) \o Flatten(Tail(pieces))

Contains(s, t) ==
    \E i \in 0..(Len(s) - Len(t)) : SubSeq(s, i + 1, i + Len(t)) = t

StartsWith(s, t) == Len(t) <= Len(s) /\ SubSeq(s, 1, Len(t)) = t

EndsWith(s, t) == Len(t) <= Len(s) /\ SubSeq(s, Len(s) - Len(t) + 1, Len(s)) = t

\* a log of the latest two texts
Logged(log, text) == IF Len(log) < 2 THEN Append(log, text) ELSE <<log[2], text>>

\* ------------------------------------------------------- the environment
\* Values the variable can hold; None is "not set".
EnvValues == {None, Some("0"), Some("1"), Some("true"), Some("full")}

\* ------------------------------------------------------------ the payload
\* Two instantiations of the generic payload E: the test's unit variant
\* ErrorKind::Testolope, and a struct `Holder { unit: () }` with derived Debug
\* and a hand-written Display.
Payloads == {"Testolope", "Holder"}

\* E::default() for the payload type that has one
PayloadDefault == "Holder"

\* `{:?}` of the payload
PayloadDebug(err) ==
    IF err = "Testolope"
    THEN <<"T", "e", "s", "t", "o", "l", "o", "p", "e">>
    ELSE <<"H", " ", "{", " ", "u", ":", " ", "(", ")", " ", "}">>

\* `{}` of the payload (the test's ErrorKind writes `{:#?}` of itself)
PayloadDisplay(err) ==
    IF err = "Testolope"
    THEN <<"T", "e", "s", "t", "o", "l", "o", "p", "e">>
    ELSE <<"h", "o", "l", "d">>

\* Descriptions handed to with_str / with_string
Descs == {<<>>, <<"c", "t", "x">>}

\* --------------------------------------------------- backtrace::Backtrace
\* (variant) the snapshot as backtrace::Backtrace::new() captures it: resolved
\* at capture
new_resolved(n) == [frames |-> n, symbols |-> n]

\* The captured snapshot: `frames` frames, of which the first `symbols` have
\* had their symbols resolved.
new_unresolved(n) == [frames |-> n, symbols |-> 0]

\* backtrace::Backtrace::resolve
resolve(bt) == [bt EXCEPT !.symbols = bt.frames]

\* format!("{:?}", backtrace): one line per frame, the symbol if resolved
BacktraceDebug(bt) ==
    Flatten([i \in 1..bt.frames |->
                IF i <= bt.symbols THEN <<"f", "\n">> ELSE <<"?", "\n">>])

\* ------------------------------------------------------ Backtrace::capture
\* (variant) a decision that knows only "1"
capture_backtrace_digit_only(var) ==
    LET rust_backtrace == IF var = None THEN "" ELSE var[1]
    IN  rust_backtrace = "1"

\* the decision of lines 30-34
capture_backtrace(var) ==
    LET rust_backtrace == IF var = None THEN "" ELSE var[1]
    IN  rust_backtrace \in {"1", "true", "full"}

\* the cell a capture builds: unresolved snapshot, no string, RefCell unborrowed
InnerMut(n) == [backtrace |-> new_unresolved(n), string |-> None]

\* Backtrace { inner: RefCell::new(inner_mut) }. `resolves` counts the calls of
\* backtrace.resolve() on the cell, `faults` those a panic cut short.
NewCell(n) == [inner |-> InnerMut(n), borrow |-> 0, resolves |-> 0, faults |-> 0]

\* Backtrace::capture() -> Option<Self>, under either build
capture(var, n) ==
    IF force_backtrace
    THEN Some(NewCell(n))
    ELSE IF capture_backtrace(var) THEN Some(NewCell(n)) ELSE None

\* ------------------------------------------------------------------- Init
Init ==
    /\ RUST_BACKTRACE \in EnvValues
    /\ force_backtrace \in BOOLEAN
    /\ derive_display \in BOOLEAN
    /\ errs = <<>>
    /\ arcs = <<>>
    /\ strong = <<>>
    /\ shown = <<>>
    /\ rendered = <<>>
    /\ panics = {}
    /\ last = None

\* ----------------------------------------------------------- constructors
\* The description is kept as its text: Cow::Borrowed(desc) and
\* Cow::Owned(desc.to_string()) of a str hold the same characters, and nothing
\* in the crate tells the two apart.
Borrowed(s) == s

Owned(s) == s

\* (variant) a construction that hands out the Backtrace captured last, when
\* there is a living one, instead of capturing
BuildShared(err, desc, captured) ==
    /\ Len(errs) < MaxErrs
    /\ IF captured = None
       THEN /\ UNCHANGED <<arcs, strong, rendered>>
            /\ errs' = Append(errs, [err |-> err, desc |-> desc,
                                     backtrace |-> None, parent |-> 0,
                                     alive |-> TRUE])
       ELSE IF Len(arcs) > 0 /\ strong[Len(arcs)] > 0
       THEN /\ UNCHANGED <<arcs, rendered>>
            /\ strong' = [strong EXCEPT ![Len(arcs)] = @ + 1]
            /\ errs' = Append(errs, [err |-> err, desc |-> desc,
                                     backtrace |-> Some(Len(arcs)),
                                     parent |-> 0, alive |-> TRUE])
       ELSE /\ arcs' = Append(arcs, captured[1])
            /\ strong' = Append(strong, 1)
            /\ rendered' = Append(rendered, {})
            /\ errs' = Append(errs, [err |-> err, desc |-> desc,
                                     backtrace |-> Some(Len(arcs) + 1),
                                     parent |-> 0, alive |-> TRUE])
    /\ shown' = Append(shown, <<>>)
    /\ UNCHANGED <<config, panics, last>>

\* The struct literal of new / with_str / with_string, after
\* Backtrace::capture().map(Arc::new): the new Arc gets the next id.
Build(err, desc, captured) ==
    /\ Len(errs) < MaxErrs
    /\ IF captured = None
       THEN /\ arcs' = arcs
            /\ strong' = strong
            /\ rendered' = rendered
            /\ errs' = Append(errs, [err |-> err, desc |-> desc,
                                     backtrace |-> None, parent |-> 0,
                                     alive |-> TRUE])
       ELSE /\ arcs' = Append(arcs, captured[1])
            /\ strong' = Append(strong, 1)
            /\ rendered' = Append(rendered, {})
            /\ errs' = Append(errs, [err |-> err, desc |-> desc,
                                     backtrace |-> Some(Len(arcs) + 1),
                                     parent |-> 0, alive |-> TRUE])
    /\ shown' = Append(shown, <<>>)
    /\ UNCHANGED <<config, panics, last>>

\* $name::new(err); n is the depth of the call stack at the call
new(err, n) == Build(err, Borrowed(<<>>), capture(RUST_BACKTRACE, n))

\* $name::with_str(err, desc)
with_str(err, desc, n) == Build(err, Borrowed(desc), capture(RUST_BACKTRACE, n))

\* $name::with_string(err, desc)
with_string(err, desc, n) == Build(err, Owned(desc), capture(RUST_BACKTRACE, n))

\* (variant) a conversion that wraps E::default() in place of its argument
from_default(error, n) == new(PayloadDefault, n)

\* From<E>::from(error)
from(error, n) == new(error, n)

\* Default::default()
default(n) == new(PayloadDefault, n)

\* (variant) a clone that leaves the backtrace behind
CloneOfWithoutTrace(self) ==
    [err |-> errs[self].err, desc |-> errs[self].desc,
     backtrace |-> None, parent |-> self, alive |-> TRUE]

\* (variant) a clone that copies the Backtrace into an Arc of its own
clone_deep(self) ==
    /\ Len(errs) < MaxErrs
    /\ errs[self].alive
    /\ IF errs[self].backtrace = None
       THEN /\ errs' = Append(errs, [errs[self] EXCEPT !.parent = self])
            /\ UNCHANGED <<arcs, strong, rendered>>
       ELSE /\ errs' = Append(errs, [errs[self] EXCEPT !.parent = self,
                                                       !.backtrace = Some(Len(arcs) + 1)])
            /\ arcs' = Append(arcs, arcs[errs[self].backtrace[1]])
            /\ strong' = Append(strong, 1)
            /\ rendered' = Append(rendered, {})
    /\ shown' = Append(shown, <<>>)
    /\ UNCHANGED <<RUST_BACKTRACE, force_backtrace, derive_display, panics, last>>

\* Clone::clone(&self): payload and description copied, the Arc shared
CloneOf(self) ==
    [err |-> errs[self].err, desc |-> errs[self].desc,
     backtrace |-> errs[self].backtrace, parent |-> self, alive |-> TRUE]

\* (variant) a copy of the pointer that the Arc does not count
ArcCloneUncounted(backtrace) == strong

\* Option<Arc<Backtrace>>::clone: Arc::clone adds one to the strong count
ArcClone(backtrace) ==
    IF backtrace = None THEN strong ELSE [strong EXCEPT ![backtrace[1]] = @ + 1]

clone(self) ==
    /\ Len(errs) < MaxErrs
    /\ errs[self].alive
    /\ errs' = Append(errs, CloneOf(self))
    /\ strong' = ArcClone(errs[self].backtrace)
    /\ shown' = Append(shown, <<>>)
    /\ UNCHANGED <<config, arcs, rendered, panics, last>>

\* ------------------------------------------------------------------ drop
\* the slot of a wrapped error that has been dropped: its fields are gone
Dropped == [err |-> "", desc |-> <<>>, backtrace |-> None, parent |-> 0, alive |-> FALSE]

\* the allocation of a Backtrace that has been destroyed: snapshot and string
\* are freed
FreedCell ==
    [inner |-> [backtrace |-> [frames |-> 0, symbols |-> 0], string |-> None],
     borrow |-> 0, resolves |-> 0, faults |-> 0]

\* The drop glue of $name<E>: err and desc are dropped with the value, and
\* Arc::drop takes one off the strong count and destroys the Backtrace when it
\* took the last one.
drop(self) ==
    /\ errs[self].alive
    /\ errs' = [errs EXCEPT ![self] = Dropped]
    /\ shown' = [shown EXCEPT ![self] = <<>>]
    /\ IF errs[self].backtrace = None
       THEN UNCHANGED <<arcs, strong, rendered>>
       ELSE LET a == errs[self].backtrace[1]
            IN  /\ strong' = [strong EXCEPT ![a] = @ - 1]
                /\ IF strong[a] = 1
                   THEN /\ arcs' = [arcs EXCEPT ![a] = FreedCell]
                        /\ rendered' = [rendered EXCEPT ![a] = {}]
                   ELSE UNCHANGED <<arcs, rendered>>
    /\ UNCHANGED <<config, panics, last>>

\* -------------------------------------------------------------- accessors
\* $name::err(&self) -> &E
err_ref(self) == self.err

\* $name::desc(&self) -> &Cow<'static, str>
desc_ref(self) == self.desc

\* Deref::deref(&self) -> &E
deref(self) == self.err

\* &Backtrace from the accessor: `self.backtrace.as_ref()?`, then the Arc's target
backtrace(self) == IF self.backtrace = None THEN None ELSE Some(self.backtrace[1])

\* (variant) an accessor that hands out the Backtrace resolved
AccessedResolved(self, op, value) ==
    /\ self.alive
    /\ last' = Some([op |-> op, value |-> value])
    /\ arcs' = [a \in DOMAIN arcs |->
                   IF self.backtrace = Some(a)
                   THEN [arcs[a] EXCEPT !.inner.backtrace = resolve(@)]
                   ELSE arcs[a]]
    /\ UNCHANGED <<config, errs, strong, shown, rendered, panics>>

\* An accessor call on `self` by a caller that keeps the reference: the
\* methods take &self and assign nothing.
Accessed(self, op, value) ==
    /\ self.alive
    /\ last' = Some([op |-> op, value |-> value])
    /\ UNCHANGED <<config, errs, arcs, strong, shown, rendered, panics>>

New == \E err \in Payloads, n \in 1..MaxFrames : new(err, n)

WithStr == \E err \in Payloads, desc \in Descs, n \in 1..MaxFrames : with_str(err, desc, n)

WithString ==
    \E err \in Payloads, desc \in Descs, n \in 1..MaxFrames : with_string(err, desc, n)

From == \E error \in Payloads, n \in 1..MaxFrames : from(error, n)

Default == \E n \in 1..MaxFrames : default(n)

Clone == \E self \in 1..Len(errs) : clone(self)

Drop == \E self \in 1..Len(errs) : drop(self)

Err == \E e \in 1..Len(errs) : Accessed(errs[e], "err", err_ref(errs[e]))

Desc == \E e \in 1..Len(errs) : Accessed(errs[e], "desc", desc_ref(errs[e]))

Deref == \E e \in 1..Len(errs) : Accessed(errs[e], "deref", deref(errs[e]))

BacktraceOf == \E e \in 1..Len(errs) : Accessed(errs[e], "backtrace", backtrace(errs[e]))

\* std::env::set_var / remove_var by the surrounding program
SetEnv ==
    /\ \E v \in EnvValues : RUST_BACKTRACE' = v
    /\ RUST_BACKTRACE' # RUST_BACKTRACE
    /\ UNCHANGED <<force_backtrace, derive_display, errs, arcs, strong, shown, rendered,
                   panics, last>>

\* ------------------------------------------------- the RefCell<InnerMut>
\* The cell's borrow flag as RefCell keeps it: 0 unborrowed, n > 0 shared
\* borrows, -1 mutably borrowed. borrow() panics on a mutably borrowed cell,
\* borrow_mut() on any borrowed cell.
CanBorrow(cell) == cell.borrow >= 0

CanBorrowMut(cell) == cell.borrow = 0

\* (variant) a check that never finds the cached string
has_backtrace_never(cell) == FALSE

\* `backtrace_ref.string.is_some()` under a shared borrow
has_backtrace(cell) == cell.inner.string # None

\* (variant) a resolution that formats the snapshot and drops the text
ResolveAndForget(cell) ==
    [cell EXCEPT !.inner.backtrace = resolve(@), !.resolves = @ + 1]

\* The body of `if !has_backtrace`: resolve, then store the formatted snapshot.
\* `resolves` counts the calls of backtrace.resolve().
ResolveAndStore(cell) ==
    LET resolved == resolve(cell.inner.backtrace)
    IN  [cell EXCEPT !.inner = [backtrace |-> resolved,
                                string |-> Some(BacktraceDebug(resolved))],
                     !.resolves = @ + 1]

\* The check and the resolution Debug::fmt and Display::fmt of Backtrace share.
\* No code of the caller runs inside it: the borrows taken are released before
\* it ends.
ResolveIfNecessary(cell) ==
    IF ~CanBorrow(cell)
    THEN [panic |-> Some("already mutably borrowed"), cell |-> cell]
    ELSE IF has_backtrace(cell)
    THEN [panic |-> None, cell |-> cell]
    ELSE IF ~CanBorrowMut(cell)
    THEN [panic |-> Some("already borrowed"), cell |-> cell]
    ELSE [panic |-> None, cell |-> ResolveAndStore(cell)]

\* (variant) a Display that writes the snapshot as it was formatted on entry
\* instead of the cached string
BacktraceDisplayUncached(cell, sinkOk) ==
    LET r == ResolveIfNecessary(cell)
    IN  IF sinkOk
        THEN [res |-> "Ok", panic |-> None, cell |-> r.cell,
              out |-> BacktraceDebug(cell.inner.backtrace)]
        ELSE [res |-> "Err", panic |-> None, cell |-> r.cell, out |-> <<>>]

\* <Backtrace as Display>::fmt; sinkOk: whether the formatter takes the write
BacktraceDisplay(cell, sinkOk) ==
    LET r == ResolveIfNecessary(cell)
    IN  IF r.panic # None
        THEN [res |-> "Panic", panic |-> r.panic, cell |-> r.cell, out |-> <<>>]
        ELSE IF ~CanBorrow(r.cell)
        THEN [res |-> "Panic", panic |-> Some("already mutably borrowed"),
              cell |-> r.cell, out |-> <<>>]
        ELSE IF r.cell.inner.string = None
        THEN [res |-> "Panic", panic |-> Some("Failed to access captured backtrace?!"),
              cell |-> r.cell, out |-> <<>>]
        ELSE IF sinkOk
        THEN [res |-> "Ok", panic |-> None, cell |-> r.cell,
              out |-> r.cell.inner.string[1]]
        ELSE [res |-> "Err", panic |-> None, cell |-> r.cell, out |-> <<>>]

\* `{:?}` of a str: quoted, line breaks escaped
StrDebug(s) ==
    <<"\"">> \o Flatten([i \in 1..Len(s) |->
                            IF s[i] = "\n" THEN <<"\\", "n">> ELSE <<s[i]>>]) \o <<"\"">>

\* `{:?}` of the RefCell<InnerMut>: try_borrow, then the derived Debug of InnerMut
RefCellDebug(cell) ==
    IF CanBorrow(cell)
    THEN <<"RefCell { value: InnerMut { backtrace: ">> \o BacktraceDebug(cell.inner.backtrace)
         \o <<", string: ">>
         \o (IF cell.inner.string = None
             THEN <<"None">>
             ELSE <<"Some(">> \o StrDebug(cell.inner.string[1]) \o <<")">>)
         \o <<" } }">>
    ELSE <<"RefCell { value: <borrowed> }">>

\* (variant) a Debug that resolves and stores without looking at the cache
BacktraceDebugFmtUnchecked(cell, sinkOk) ==
    [res |-> IF sinkOk THEN "Ok" ELSE "Err", panic |-> None,
     cell |-> ResolveAndStore(cell), out |-> <<>>]

\* (variant) a Debug that is a pure read: it formats the cell as it finds it
BacktraceDebugFmtPure(cell, sinkOk) ==
    IF sinkOk
    THEN [res |-> "Ok", panic |-> None, cell |-> cell,
          out |-> <<"Backtrace { inner: ">> \o RefCellDebug(cell) \o <<" }">>]
    ELSE [res |-> "Err", panic |-> None, cell |-> cell, out |-> <<>>]

\* <Backtrace as Debug>::fmt
BacktraceDebugFmt(cell, sinkOk) ==
    LET r == ResolveIfNecessary(cell)
    IN  IF r.panic # None
        THEN [res |-> "Panic", panic |-> r.panic, cell |-> r.cell, out |-> <<>>]
        ELSE IF sinkOk
        THEN [res |-> "Ok", panic |-> None, cell |-> r.cell,
              out |-> <<"Backtrace { inner: ">> \o RefCellDebug(r.cell) \o <<" }">>]
        ELSE [res |-> "Err", panic |-> None, cell |-> r.cell, out |-> <<>>]

\* ------------------------------------------------ formatting the wrapper
Header == <<"B", "a", "c", "k", "t", "r", "a", "c", "e", ":", "\n">>

\* (variant) the section header written whether or not there is a backtrace
DisplayWritesAlwaysHeader(self, payload) ==
    <<payload>>
    \o (IF self.desc # <<>> THEN << <<" ", "(">> \o self.desc \o <<")">> >> ELSE <<>>)
    \o << <<"\n">>, <<"\n">>, Header >>

\* (variant) the description suffix written whether or not it is empty
DisplayWritesAlwaysSuffix(self, payload) ==
    <<payload>>
    \o << <<" ", "(">> \o self.desc \o <<")">> >>
    \o (IF self.backtrace # None THEN << <<"\n">>, <<"\n">>, Header >> ELSE <<>>)

\* (variant) the section opened by one line break, with no blank line
DisplayWritesOneBreak(self, payload) ==
    <<payload>>
    \o (IF self.desc # <<>> THEN << <<" ", "(">> \o self.desc \o <<")">> >> ELSE <<>>)
    \o (IF self.backtrace # None THEN << <<"\n">>, Header >> ELSE <<>>)

\* The write!/writeln! calls of the wrapper's Display::fmt that come before the
\* backtrace is formatted, each one write to the formatter.
DisplayWrites(self, payload) ==
    <<payload>>
    \o (IF self.desc # <<>>
        THEN << <<" ", "(">> \o self.desc \o <<")">> >>
        ELSE <<>>)
    \o (IF self.backtrace # None THEN << <<"\n">>, <<"\n">>, Header >> ELSE <<>>)

\* The fields debug_struct writes before it formats the Option<Arc<Backtrace>>
DebugWrites(self) ==
    << <<"Error<E> { ", "err: ">> \o PayloadDebug(self.err),
       <<", desc: ">> \o StrDebug(self.desc),
       <<", backtrace: ">> \o (IF self.backtrace = None THEN <<"None">> ELSE <<"Some(">>) >>

\* (variant) a formatting call that resolves the backtrace on entry, before its
\* first write
FormatEager(self, writes, closing, failAt, alternate) ==
    IF self.backtrace = None
    THEN [res |-> IF failAt \in 1..Len(writes) THEN "Err" ELSE "Ok", panic |-> None,
          cell |-> None,
          out |-> IF failAt \in 1..Len(writes)
                  THEN Flatten(SubSeq(writes, 1, failAt - 1))
                  ELSE Flatten(writes)]
    ELSE LET b == IF alternate
                  THEN BacktraceDebugFmt(arcs[self.backtrace[1]], TRUE)
                  ELSE BacktraceDisplay(arcs[self.backtrace[1]], TRUE)
             n == failAt - Len(writes) - 1
         IN  IF failAt \in 1..Len(writes)
             THEN [res |-> "Err", panic |-> None, cell |-> Some(b.cell),
                   out |-> Flatten(SubSeq(writes, 1, failAt - 1))]
             ELSE IF n = 0
             THEN [res |-> "Err", panic |-> None, cell |-> Some(b.cell),
                   out |-> Flatten(writes)]
             ELSE IF n \in 1..Len(closing)
             THEN [res |-> "Err", panic |-> None, cell |-> Some(b.cell),
                   out |-> Flatten(writes) \o b.out \o Flatten(SubSeq(closing, 1, n - 1))]
             ELSE [res |-> "Ok", panic |-> None, cell |-> Some(b.cell),
                   out |-> Flatten(writes) \o b.out \o Flatten(closing)]

\* A formatting call: `writes` first; the first failing write (failAt, 0 for
\* none) ends the call with Err before anything later runs. With a backtrace,
\* its fmt (Display's or Debug's, as `alternate` says) runs next and writes
\* once; `closing` are the writes after it.
Format(self, writes, closing, failAt, alternate) ==
    IF failAt \in 1..Len(writes)
    THEN [res |-> "Err", panic |-> None, cell |-> None,
          out |-> Flatten(SubSeq(writes, 1, failAt - 1))]
    ELSE IF self.backtrace = None
    THEN [res |-> "Ok", panic |-> None, cell |-> None, out |-> Flatten(writes)]
    ELSE LET sinkOk == failAt # Len(writes) + 1
             b == IF alternate
                  THEN BacktraceDebugFmt(arcs[self.backtrace[1]], sinkOk)
                  ELSE BacktraceDisplay(arcs[self.backtrace[1]], sinkOk)
             n == failAt - Len(writes) - 1
         IN  IF b.res # "Ok"
             THEN [res |-> b.res, panic |-> b.panic, cell |-> Some(b.cell),
                   out |-> Flatten(writes)]
             ELSE IF n \in 1..Len(closing)
             THEN [res |-> "Err", panic |-> None, cell |-> Some(b.cell),
                   out |-> Flatten(writes) \o b.out \o Flatten(SubSeq(closing, 1, n - 1))]
             ELSE [res |-> "Ok", panic |-> None, cell |-> Some(b.cell),
                   out |-> Flatten(writes) \o b.out \o Flatten(closing)]

\* the number of writes a call on `self` can fail at
NumWrites(self, writes, closing) ==
    Len(writes) + (IF self.backtrace = None THEN 0 ELSE 1 + Len(closing))

\* Display::fmt of the wrapper without the derive_display feature
display_fmt(self, failAt) ==
    Format(self, DisplayWrites(self, PayloadDisplay(self.err)), <<>>, failAt,
           FALSE)

\* Display::fmt of the wrapper with the derive_display feature
derive_display_fmt(self, failAt) ==
    Format(self, DisplayWrites(self, PayloadDebug(self.err)), <<>>, failAt,
           FALSE)

\* whichever Display the build has
to_text(self, failAt) ==
    IF derive_display THEN derive_display_fmt(self, failAt) ELSE display_fmt(self, failAt)

\* Debug::fmt of the wrapper
debug_fmt(self, failAt) ==
    Format(self, DebugWrites(self),
           IF self.backtrace = None THEN << <<" }">> >> ELSE << <<")">>, <<" }">> >>,
           failAt, TRUE)

\* what a finished formatting call leaves behind
Returned(a, r) ==
    /\ arcs' = IF r.cell = None THEN arcs ELSE [arcs EXCEPT ![a[1]] = r.cell[1]]
    /\ panics' = IF r.panic = None THEN panics ELSE panics \cup {r.panic[1]}
    /\ UNCHANGED <<config, errs, strong>>

\* (variant) a first write whose Err from E's fmt is dropped instead of returned
FailsAtSinkOnly(payloadFails, failAt) == failAt

\* The write a Display call ends at: E's own fmt returning Err ends the first
\* write!, that of the payload, whatever the sink would take (0: no write fails).
FailsAt(payloadFails, failAt) == IF payloadFails THEN 1 ELSE failAt

\* the part of the wrapper's Display::fmt that write number `at` belongs to
Stage(self, at) ==
    IF at = 0 THEN "none"
    ELSE IF at = 1 THEN "err"
    ELSE IF at = 2 /\ self.desc # <<>> THEN "desc"
    ELSE "backtrace"

\* what the caller has in hand after a Display call: the Result, and what it
\* knows of the failure it injected
Outcome(self, r, payloadFails, failAt) ==
    [op |-> "to_text", res |-> r.res, payload |-> payloadFails,
     stage |-> Stage(self, FailsAt(payloadFails, failAt))]

\* one call of Display::fmt on wrapped error e
DisplayCall(e, payloadFails, failAt) ==
    LET r == to_text(errs[e], FailsAt(payloadFails, failAt))
    IN  /\ errs[e].alive
        /\ payloadFails => failAt = 0
        /\ Returned(errs[e].backtrace, r)
        /\ shown' = IF r.res = "Ok"
                    THEN [shown EXCEPT ![e] = Logged(@, r.out)]
                    ELSE shown
        /\ UNCHANGED rendered

\* format!("{}", e) / write!(sink, "{}", e) on a wrapped error
Display ==
    \E e \in 1..Len(errs), payloadFails \in BOOLEAN :
        \E failAt \in 0..NumWrites(errs[e], DisplayWrites(errs[e], <<>>), <<>>) :
            /\ DisplayCall(e, payloadFails, failAt)
            /\ UNCHANGED last

\* the same call, by a caller that keeps the Result
DisplayObserved ==
    \E e \in 1..Len(errs), payloadFails \in BOOLEAN :
        \E failAt \in 0..NumWrites(errs[e], DisplayWrites(errs[e], <<>>), <<>>) :
            /\ DisplayCall(e, payloadFails, failAt)
            /\ last' = Some(Outcome(errs[e],
                                    to_text(errs[e], FailsAt(payloadFails, failAt)),
                                    payloadFails, failAt))

\* what the caller has in hand after a Debug call: the Result, and whether the
\* call was the one to resolve the Backtrace
DebugOutcome(self, r) ==
    [op |-> "debug", res |-> r.res,
     resolved |-> /\ r.cell # None
                  /\ r.cell[1].resolves > arcs[self.backtrace[1]].resolves]

\* one call of Debug::fmt on wrapped error e
DebugCall(e, failAt) ==
    /\ errs[e].alive
    /\ Returned(errs[e].backtrace, debug_fmt(errs[e], failAt))
    /\ UNCHANGED <<shown, rendered>>

\* format!("{:?}", e) / write!(sink, "{:?}", e) on a wrapped error
Debug ==
    \E e \in 1..Len(errs) :
        \E failAt \in 0..NumWrites(errs[e], DebugWrites(errs[e]), << <<>>, <<>> >>) :
            /\ DebugCall(e, failAt)
            /\ UNCHANGED last

\* the same call, by a caller that keeps the Result
DebugObserved ==
    \E e \in 1..Len(errs) :
        \E failAt \in 0..NumWrites(errs[e], DebugWrites(errs[e]), << <<>>, <<>> >>) :
            /\ DebugCall(e, failAt)
            /\ last' = Some(DebugOutcome(errs[e], debug_fmt(errs[e], failAt)))

\* format!("{}", e.backtrace().unwrap()): Display of the Backtrace itself
DisplayBacktrace ==
    \E e \in 1..Len(errs), sinkOk \in BOOLEAN :
        LET a == backtrace(errs[e])
        IN  /\ errs[e].alive
            /\ a # None
            /\ LET b == BacktraceDisplay(arcs[a[1]], sinkOk)
               IN  /\ Returned(a, [b EXCEPT !.cell = Some(b.cell)])
                   /\ rendered' = IF b.res = "Ok"
                                  THEN [rendered EXCEPT ![a[1]] = @ \cup {b.out}]
                                  ELSE rendered
            /\ UNCHANGED <<shown, last>>

\* format!("{:?}", e.backtrace().unwrap()): Debug of the Backtrace itself
DebugBacktrace ==
    \E e \in 1..Len(errs), sinkOk \in BOOLEAN :
        LET a == backtrace(errs[e])
        IN  /\ errs[e].alive
            /\ a # None
            /\ LET b == BacktraceDebugFmt(arcs[a[1]], sinkOk)
               IN  Returned(a, [b EXCEPT !.cell = Some(b.cell)])
            /\ UNCHANGED <<shown, rendered, last>>

\* ------------------------------------------- a panic inside the resolution
\* (variant) an unwinding that leaves the cell mutably borrowed, as a guard that
\* is never dropped would
UnwindStillBorrowed(cell) == [cell EXCEPT !.borrow = -1]

\* RefMut's Drop, which runs as the panic unwinds out of the `if !has_backtrace`
\* block: the cell is unborrowed again (a RefCell is never poisoned).
Unwind(cell) == [cell EXCEPT !.borrow = 0]

\* (variant) a resolution that stores the text of what it has resolved so far
\* before it panics
PanicInResolutionStored(cell, k) ==
    Unwind([cell EXCEPT !.borrow = -1,
                        !.inner.backtrace.symbols = k,
                        !.inner.string =
                            Some(BacktraceDebug([cell.inner.backtrace EXCEPT !.symbols = k])),
                        !.resolves = @ + 1,
                        !.faults = @ + 1])

\* The cell after a call whose resolution panicked under the mutable borrow,
\* with the first k frames resolved: k below `frames` is a panic inside
\* resolve(), k = frames one inside format!. The string is assigned only after
\* format! returns, so it is still None.
PanicInResolution(cell, k) ==
    Unwind([cell EXCEPT !.borrow = -1,
                        !.inner.backtrace.symbols = k,
                        !.resolves = @ + 1,
                        !.faults = @ + 1])

\* A Debug or Display call on an unresolved Backtrace that panics while it
\* resolves; the caller catches the panic (or formats again while unwinding).
ResolutionPanics ==
    \E a \in 1..Len(arcs) :
        /\ strong[a] > 0
        /\ CanBorrow(arcs[a]) /\ ~has_backtrace(arcs[a]) /\ CanBorrowMut(arcs[a])
        /\ arcs[a].faults < MaxFaults
        /\ \E k \in arcs[a].inner.backtrace.symbols..arcs[a].inner.backtrace.frames :
               arcs' = [arcs EXCEPT ![a] = PanicInResolution(arcs[a], k)]
        /\ UNCHANGED <<config, errs, strong, shown, rendered, panics, last>>

\* ------------------------------------------------------ the specifications
Next ==
    \/ New \/ WithStr \/ WithString \/ From \/ Default \/ Clone \/ Drop
    \/ SetEnv
    \/ Display \/ Debug \/ DisplayBacktrace \/ DebugBacktrace

\* the program as written: nothing in the resolution panics
Spec == Init /\ [][Next]_vars

NextFault == Next \/ ResolutionPanics

\* the program with panics injected into the resolution
SpecFault == Init /\ [][NextFault]_vars

NextObserved ==
    \/ New \/ WithStr \/ WithString \/ From \/ Default \/ Clone \/ Drop
    \/ DisplayObserved \/ DebugObserved
    \/ Err \/ Desc \/ Deref \/ BacktraceOf

\* the program with a caller that keeps what its calls return
SpecObserved == Init /\ [][NextObserved]_vars

\* ---------------------------------------------------------------- claims
\* the wrapped errors that hold Arc a
Owners(a) == {e \in DOMAIN errs : errs[e].backtrace = Some(a)}

\* the payload's textual form under the build's display mode
PayloadText(err) == IF derive_display THEN PayloadDebug(err) ELSE PayloadDisplay(err)

\* the parenthesized suffix of a description
Suffix(d) == <<" ", "(">> \o d \o <<")">>

\* the texts in a log
Texts(log) == {log[i] : i \in DOMAIN log}

\* C1: on every captured Backtrace, whatever Debug and Display calls are made on
\* it directly or through the wrappers sharing it, resolve() is called at most
\* once, and once the cached string is set no later step changes the cell for as
\* long as the Backtrace lives.
C1_ResolvedAtMostOnce ==
    /\ [](\A a \in DOMAIN arcs : arcs[a].resolves <= 1)
    /\ [][\A a \in DOMAIN arcs :
              arcs[a].inner.string # None /\ strong'[a] > 0 => arcs'[a] = arcs[a]]_vars

\* a resolved Backtrace that was displayed both directly and through a wrapper
C1_Witness ==
    \E a \in DOMAIN arcs :
        /\ arcs[a].inner.string # None
        /\ rendered[a] # {}
        /\ \E e \in Owners(a) : shown[e] # <<>>

C3_UsableAfterPanic ==
    /\ panics = {}
    /\ \A a \in DOMAIN arcs :
           arcs[a].faults > 0 =>
               LET r == BacktraceDisplay(arcs[a], TRUE)
               IN  /\ r.res = "Ok"
                   /\ r.out = BacktraceDebug(resolve(arcs[a].inner.backtrace))
                   /\ r.cell.inner.string = Some(r.out)
                   /\ \A e \in Owners(a) : \A t \in Texts(shown[e]) : EndsWith(t, r.out)

\* a Backtrace whose resolution panicked once and that an owner rendered later
C3_Witness ==
    \E a \in DOMAIN arcs :
        /\ arcs[a].faults > 0
        /\ arcs[a].inner.string # None
        /\ \E e \in Owners(a) : shown[e] # <<>>

\* C4: a clone has its original's payload and description and holds the very
\* same Arc (for as long as the original lives to be compared); the two never
\* receive different texts, and their shared Backtrace is resolved at most once.
C4_ClonesShareTrace ==
    \A c \in DOMAIN errs :
        LET p == errs[c].parent
        IN  p # 0 =>
                /\ errs[p].alive => /\ errs[c].err = errs[p].err
                                    /\ errs[c].desc = errs[p].desc
                                    /\ errs[c].backtrace = errs[p].backtrace
                /\ Cardinality(Texts(shown[c]) \cup Texts(shown[p])) <= 1
                /\ errs[c].backtrace # None => arcs[errs[c].backtrace[1]].resolves <= 1

\* a clone and its original, sharing a Backtrace, have both rendered
C4_Witness ==
    \E c \in DOMAIN errs :
        /\ errs[c].parent # 0
        /\ errs[c].backtrace # None
        /\ shown[c] # <<>>
        /\ shown[errs[c].parent] # <<>>

\* C5: the texts returned by repeated Display calls on one wrapped error are
\* identical, as are those of repeated Display calls on one Backtrace, and what
\* the wrapper printed of the trace is what the Backtrace prints itself.
C5_Idempotent ==
    /\ \A e \in DOMAIN errs : Cardinality(Texts(shown[e])) <= 1
    /\ \A a \in DOMAIN arcs :
           /\ Cardinality(rendered[a]) <= 1
           /\ \A e \in Owners(a) :
                  \A t \in Texts(shown[e]) : \A b \in rendered[a] : EndsWith(t, b)

\* one wrapped error displayed twice, its Backtrace displayed directly as well
C5_Witness ==
    \E e \in DOMAIN errs :
        /\ Len(shown[e]) = 2
        /\ errs[e].backtrace # None
        /\ rendered[errs[e].backtrace[1]] # {}

\* C6: a Backtrace enters the program unresolved, with no cached string and no
\* call of resolve() made on it.
C6_CaptureDefers ==
    [][\A a \in DOMAIN arcs' :
           a \notin DOMAIN arcs =>
               /\ arcs'[a].inner.backtrace.symbols = 0
               /\ arcs'[a].inner.string = None
               /\ arcs'[a].resolves = 0]_vars

\* a constructed error whose Backtrace has not been formatted yet
C6_Witness ==
    \E e \in DOMAIN errs :
        /\ errs[e].parent = 0
        /\ errs[e].backtrace # None
        /\ arcs[errs[e].backtrace[1]].resolves = 0
        /\ arcs[errs[e].backtrace[1]].inner.string = None

\* C7 as stated: the text of an error without a backtrace carries a hint line
\* after the payload text and the description suffix, and no "Backtrace:".
C7_HintWhenOff ==
    \A e \in DOMAIN errs :
        errs[e].backtrace = None =>
            \A t \in Texts(shown[e]) :
                /\ Len(t) > Len(PayloadText(errs[e].err))
                           + (IF errs[e].desc = <<>> THEN 0 ELSE Len(Suffix(errs[e].desc)))
                /\ ~Contains(t, SubSeq(Header, 1, Len(Header) - 1))

\* C7, amended: the text of an error without a backtrace is exactly the payload
\* text followed by the description suffix if there is a description: no hint
\* and no "Backtrace:" section.
C7_NothingWhenOff ==
    \A e \in DOMAIN errs :
        errs[e].backtrace = None =>
            \A t \in Texts(shown[e]) :
                t = PayloadText(errs[e].err)
                    \o (IF errs[e].desc = <<>> THEN <<>> ELSE Suffix(errs[e].desc))

\* an error without a backtrace has been displayed
C7_Witness ==
    \E e \in DOMAIN errs : errs[e].backtrace = None /\ shown[e] # <<>>

\* the error a step constructs (0 if it constructs none)
Built == IF Len(errs') > Len(errs) /\ errs'[Len(errs')].parent = 0 THEN Len(errs') ELSE 0

\* the error a step clones into being (0 if it clones none)
Cloned == IF Len(errs') > Len(errs) /\ errs'[Len(errs')].parent # 0 THEN Len(errs') ELSE 0

\* C8: a constructor raises no panic, and the error it builds has a backtrace
\* iff the build forces it or RUST_BACKTRACE is "1", "true" or "full" as the
\* constructor runs.
C8_CaptureByConfiguration ==
    [][Built # 0 =>
           /\ panics' = panics
           /\ errs'[Built].backtrace # None
                  <=> \/ force_backtrace
                      \/ RUST_BACKTRACE \in {Some("1"), Some("true"), Some("full")}]_vars

\* without the override, one construction captured and another did not
C8_Witness ==
    /\ ~force_backtrace
    /\ \E e1, e2 \in DOMAIN errs :
           /\ errs[e1].parent = 0 /\ errs[e1].backtrace # None
           /\ errs[e2].alive /\ errs[e2].parent = 0 /\ errs[e2].backtrace = None

\* C9: no step gives a living error a backtrace or takes it away, whatever
\* happens to RUST_BACKTRACE; without the override a constructor captures iff
\* the variable is enabling as it runs; a clone has a backtrace iff its original
\* has one.
C9_ToggleReadAtConstruction ==
    [][/\ \A e \in DOMAIN errs :
              e \in DOMAIN errs' /\ (errs'[e].alive => errs'[e].backtrace = errs[e].backtrace)
       /\ (Built # 0 /\ ~force_backtrace) =>
              (errs'[Built].backtrace # None <=> capture_backtrace(RUST_BACKTRACE))
       /\ Cloned # 0 =>
              (errs'[Cloned].backtrace = None
                   <=> errs[errs'[Cloned].parent].backtrace = None)]_vars

\* an error captured while the variable was enabling keeps its backtrace, and
\* so does its clone, after the variable has been changed to a disabling value
C9_Witness ==
    /\ ~force_backtrace
    /\ ~capture_backtrace(RUST_BACKTRACE)
    /\ \E c \in DOMAIN errs :
           /\ errs[c].parent # 0
           /\ errs[c].backtrace # None

\* C10 as stated: the text contains " (" + d + ")" iff d is not empty.
C10_SuffixIffNonEmpty ==
    \A e \in DOMAIN errs :
        \A t \in Texts(shown[e]) :
            Contains(t, Suffix(errs[e].desc)) <=> errs[e].desc # <<>>

\* C10, amended: the text starts with the payload text; with a non-empty d the
\* suffix " (" + d + ")" follows it at once, and with an empty d the text ends
\* there or goes on with the line break that opens the backtrace section.
C10_SuffixAfterPayload ==
    \A e \in DOMAIN errs :
        \A t \in Texts(shown[e]) :
            LET p == PayloadText(errs[e].err)
                rest == SubSeq(t, Len(p) + 1, Len(t))
            IN  /\ StartsWith(t, p)
                /\ IF errs[e].desc # <<>>
                   THEN StartsWith(rest, Suffix(errs[e].desc))
                   ELSE rest = <<>> \/ StartsWith(rest, <<"\n", "\n">> \o Header)

\* an error with a description and one without have both been displayed
C10_Witness ==
    \E e1, e2 \in DOMAIN errs :
        /\ errs[e1].desc # <<>> /\ shown[e1] # <<>>
        /\ errs[e2].desc = <<>> /\ shown[e2] # <<>>

\* C11: the text of a wrapped error has the "Backtrace:" section iff the error
\* has a backtrace, and then it is exactly the payload text, the description
\* suffix if there is a description, a line break, an empty line, the line
\* "Backtrace:", and the non-empty text cached in the Backtrace, which ends it.
C11_SectionIffTrace ==
    \A e \in DOMAIN errs :
        \A t \in Texts(shown[e]) :
            LET head == PayloadText(errs[e].err)
                        \o (IF errs[e].desc = <<>> THEN <<>> ELSE Suffix(errs[e].desc))
            IN  IF errs[e].backtrace = None
                THEN /\ t = head
                     /\ ~Contains(t, Header)
                ELSE LET cell == arcs[errs[e].backtrace[1]]
                     IN  /\ cell.inner.string # None
                         /\ cell.inner.string[1] # <<>>
                         /\ cell.inner.string[1] = BacktraceDebug(cell.inner.backtrace)
                         /\ t = head \o <<"\n", "\n">> \o Header \o cell.inner.string[1]
                         /\ Contains(t, Header)

\* an error with a description and a backtrace has been displayed, and so has
\* a Testolope built without a description
C11_Witness ==
    \E e1, e2 \in DOMAIN errs :
        /\ errs[e1].backtrace # None /\ errs[e1].desc # <<>> /\ shown[e1] # <<>>
        /\ errs[e2].backtrace # None /\ errs[e2].desc = <<>> /\ shown[e2] # <<>>
        /\ errs[e2].err = "Testolope"

\* the errors a step drops
DroppedBy == {e \in DOMAIN errs : errs[e].alive /\ ~errs'[e].alive}

\* C12: the strong count of a Backtrace is the number of living errors that hold
\* it, and the Backtrace is destroyed exactly when that number is zero; a step
\* that drops an error leaves every other error, what it has displayed, the
\* Backtrace it holds and the text it would display as they were.
C12_DropLeavesOthers ==
    /\ [](\A a \in DOMAIN arcs :
              /\ strong[a] = Cardinality(Owners(a))
              /\ arcs[a] = FreedCell <=> Owners(a) = {})
    /\ [][\A e \in DroppedBy :
              \A o \in DOMAIN errs \ {e} :
                  /\ UNCHANGED <<errs[o], shown[o]>>
                  /\ errs[o].backtrace # None =>
                         /\ UNCHANGED arcs[errs[o].backtrace[1]]
                         /\ UNCHANGED to_text(errs[o], 0).out]_vars

\* a clone has displayed twice and outlives its original, holding the only
\* count of their Backtrace
C12_Witness ==
    \E c \in DOMAIN errs :
        /\ errs[c].parent # 0
        /\ ~errs[errs[c].parent].alive
        /\ errs[c].backtrace # None
        /\ strong[errs[c].backtrace[1]] = 1
        /\ Len(shown[c]) = 2

\* the writes a Display or Debug call on `self` can be made to fail at
DisplayFailures(self) == 1..NumWrites(self, DisplayWrites(self, <<>>), <<>>)

DebugFailures(self) == 1..NumWrites(self, DebugWrites(self), << <<>>, <<>> >>)

\* C13: with construction, cloning, the accessors, Debug and Display called in
\* any order, the crate's code raises no panic and no RefCell is left borrowed;
\* a Display or Debug call on any living error, and on its Backtrace, returns
\* Ok when no write fails and Err, never a panic, when one does; and no Display
\* call has returned Err without a failure of the payload or of the sink.
C13_Infallible ==
    /\ panics = {}
    /\ \A a \in DOMAIN arcs : arcs[a].borrow = 0
    /\ \A e \in DOMAIN errs :
           errs[e].alive =>
               /\ to_text(errs[e], 0).res = "Ok"
               /\ debug_fmt(errs[e], 0).res = "Ok"
               /\ \A i \in DisplayFailures(errs[e]) : to_text(errs[e], i).res = "Err"
               /\ \A i \in DebugFailures(errs[e]) : debug_fmt(errs[e], i).res = "Err"
               /\ errs[e].backtrace # None =>
                      LET cell == arcs[errs[e].backtrace[1]]
                      IN  /\ BacktraceDisplay(cell, TRUE).res = "Ok"
                          /\ BacktraceDebugFmt(cell, TRUE).res = "Ok"
                          /\ BacktraceDisplay(cell, FALSE).res = "Err"
                          /\ BacktraceDebugFmt(cell, FALSE).res = "Err"
    /\ (last # None /\ last[1].op = "to_text") =>
           /\ last[1].res \in {"Ok", "Err"}
           /\ last[1].res = "Err" => last[1].payload \/ last[1].stage # "none"

\* a Display call has just returned Ok, and a clone that shares a resolved
\* Backtrace with its living original has displayed
C13_Witness ==
    /\ last # None /\ last[1].op = "to_text" /\ last[1].res = "Ok"
    /\ \E c \in DOMAIN errs :
           /\ errs[c].parent # 0 /\ errs[errs[c].parent].alive
           /\ errs[c].backtrace # None
           /\ arcs[errs[c].backtrace[1]].inner.string # None
           /\ shown[c] # <<>>

\* C14: a Display call in which the payload's own formatting failed has returned
\* Err, from the write of the payload; one in which neither the payload nor the
\* sink failed has returned Ok; and in every state, on every living error, a
\* failing payload makes the call return Err with nothing written and the
\* Backtrace not touched, and a call with no failure returns Ok.
C14_PayloadFailurePropagates ==
    /\ (last # None /\ last[1].op = "to_text") =>
           /\ last[1].payload => last[1].res = "Err" /\ last[1].stage = "err"
           /\ (~last[1].payload /\ last[1].stage = "none") => last[1].res = "Ok"
    /\ \A e \in DOMAIN errs :
           errs[e].alive =>
               LET failed == to_text(errs[e], FailsAt(TRUE, 0))
               IN  /\ failed.res = "Err"
                   /\ failed.out = <<>>
                   /\ failed.cell = None
                   /\ to_text(errs[e], FailsAt(FALSE, 0)).res = "Ok"

\* the latest Display call failed in the payload's formatting, on an error that
\* has a description and a backtrace
C14_Witness ==
    /\ last # None /\ last[1].op = "to_text"
    /\ last[1].payload /\ last[1].res = "Err"
    /\ \E e \in DOMAIN errs : errs[e].desc # <<>> /\ errs[e].backtrace # None

\* the names under which the accessors record their calls
Accessors == {"err", "desc", "deref", "backtrace"}

\* C15: a call of err(), desc(), deref() or backtrace() changes no wrapped
\* error, no Backtrace (snapshot, cached string, resolution count), no strong
\* count and nothing displayed, and it returns the field of a living error as
\* that error holds it before and after the call.
C15_AccessorsReadOnly ==
    [][(last' # last /\ last'[1].op \in Accessors) =>
           /\ UNCHANGED <<config, errs, arcs, strong, shown, rendered, panics>>
           /\ \E e \in DOMAIN errs :
                  /\ errs[e].alive
                  /\ last'[1].value =
                         CASE last'[1].op = "err" -> errs'[e].err
                           [] last'[1].op = "desc" -> errs'[e].desc
                           [] last'[1].op = "deref" -> errs'[e].err
                           [] last'[1].op = "backtrace" ->
                                  IF errs'[e].backtrace = None
                                  THEN None
                                  ELSE Some(errs'[e].backtrace[1])]_vars

\* backtrace() has just handed out a Backtrace that is still unresolved
C15_Witness ==
    /\ last # None /\ last[1].op = "backtrace" /\ last[1].value # None
    /\ strong[last[1].value[1]] > 0
    /\ arcs[last[1].value[1]].inner.string = None
    /\ arcs[last[1].value[1]].resolves = 0

\* whether the configuration makes a constructor capture
Capturing == force_backtrace \/ capture_backtrace(RUST_BACKTRACE)

\* C16: a step is new(v) exactly when it is from(v), and new(E::default())
\* exactly when it is default(); new(v) builds an error whose err() is v, whose
\* description is empty and that has a fresh, unshared Backtrace iff the
\* configuration captures; with_str(v, d) and with_string(v, d) build the same
\* error except that its description is d.
C16_ConstructorsAgree ==
    [][\A v \in Payloads, n \in 1..MaxFrames :
           /\ from(v, n) <=> new(v, n)
           /\ default(n) <=> new(PayloadDefault, n)
           /\ new(v, n) =>
                  /\ Built = Len(errs) + 1
                  /\ err_ref(errs'[Built]) = v
                  /\ deref(errs'[Built]) = v
                  /\ desc_ref(errs'[Built]) = <<>>
                  /\ backtrace(errs'[Built]) # None <=> Capturing
                  /\ backtrace(errs'[Built]) # None =>
                         /\ backtrace(errs'[Built]) = Some(Len(arcs) + 1)
                         /\ arcs'[Len(arcs) + 1] = NewCell(n)
                         /\ strong'[Len(arcs) + 1] = 1
           /\ \A d \in Descs :
                  /\ with_string(v, d, n) <=> with_str(v, d, n)
                  /\ (d = <<>>) => (with_str(v, d, n) <=> new(v, n))
                  /\ with_str(v, d, n) =>
                         /\ errs'[Built] = [err |-> v, desc |-> d,
                                            backtrace |->
                                                IF Capturing
                                                THEN Some(Len(arcs) + 1)
                                                ELSE None,
                                            parent |-> 0, alive |-> TRUE]
                         /\ arcs' = IF Capturing THEN Append(arcs, NewCell(n)) ELSE arcs]_vars

\* the default payload has been wrapped twice, once without and once with a
\* description, each time with a backtrace
C16_Witness ==
    \E e1, e2 \in DOMAIN errs :
        /\ errs[e1].alive /\ errs[e1].parent = 0 /\ errs[e1].err = PayloadDefault
        /\ errs[e1].desc = <<>> /\ errs[e1].backtrace # None
        /\ errs[e2].alive /\ errs[e2].parent = 0 /\ errs[e2].err = PayloadDefault
        /\ errs[e2].desc # <<>> /\ errs[e2].backtrace # None

\* the Backtraces that have not been destroyed
Live == {a \in DOMAIN arcs : strong[a] > 0}

\* C17 as stated: also after a resolution that failed part-way, the cached
\* string is present iff the snapshot has been resolved.
C17_StringIffResolved ==
    \A a \in Live :
        arcs[a].inner.string # None
            <=> arcs[a].inner.backtrace.symbols = arcs[a].inner.backtrace.frames

\* C17, amended: the cached string is present iff a resolution has run to its
\* end, and it is then the text of the fully resolved snapshot; a Backtrace no
\* resolution was started on is unresolved and has no text; a resolution cut
\* short by a panic leaves no text, with the snapshot resolved in part or, when
\* the panic came after resolve(), in full.
C17_StringIffResolutionCompleted ==
    \A a \in Live :
        LET inner == arcs[a].inner
        IN  /\ inner.string # None <=> arcs[a].resolves - arcs[a].faults = 1
            /\ arcs[a].resolves - arcs[a].faults \in {0, 1}
            /\ inner.string # None =>
                   /\ inner.backtrace.symbols = inner.backtrace.frames
                   /\ inner.string[1] = BacktraceDebug(inner.backtrace)
            /\ arcs[a].resolves = 0 => inner.backtrace.symbols = 0
            /\ inner.backtrace.symbols > 0 => arcs[a].resolves > 0

\* a Backtrace whose first resolution panicked has been resolved by a second
C17_Witness ==
    \E a \in Live :
        /\ arcs[a].faults = 1
        /\ arcs[a].resolves = 2
        /\ arcs[a].inner.string # None

\* C18: a constructor that captures gives its error a Backtrace no error held
\* before, unresolved and counted once, and leaves every other Backtrace as it
\* was; only a clone comes to hold a Backtrace that exists already, that of its
\* original; no step changes which Backtrace a living error holds. So two
\* living errors built by two constructor calls never hold the same one, and a
\* step in which an error displays leaves every Backtrace but that error's own
\* exactly as it was.
C18_OwnCachePerConstruction ==
    /\ [](\A e1, e2 \in DOMAIN errs :
              (/\ e1 # e2
               /\ errs[e1].alive /\ errs[e1].parent = 0 /\ errs[e1].backtrace # None
               /\ errs[e2].alive /\ errs[e2].parent = 0)
                  => errs[e1].backtrace # errs[e2].backtrace)
    /\ [][(Built # 0 /\ errs'[Built].backtrace # None) =>
              LET a == errs'[Built].backtrace[1]
              IN  /\ a \notin DOMAIN arcs
                  /\ {e \in DOMAIN errs' : errs'[e].backtrace = Some(a)} = {Built}
                  /\ strong'[a] = 1
                  /\ arcs'[a].inner.string = None /\ arcs'[a].resolves = 0
                  /\ \A b \in DOMAIN arcs : arcs'[b] = arcs[b]]_vars
    /\ [][Cloned # 0 =>
              /\ errs'[Cloned].backtrace = errs[errs'[Cloned].parent].backtrace
              /\ arcs' = arcs]_vars
    /\ [][\A e \in DOMAIN errs :
              errs'[e].alive => errs'[e].backtrace = errs[e].backtrace]_vars
    /\ [][\A e \in DOMAIN errs :
              shown'[e] \notin {shown[e], <<>>} =>
                  \A a \in DOMAIN arcs :
                      errs[e].backtrace # Some(a) => arcs'[a] = arcs[a]]_vars

\* of two errors built by two constructor calls, one has displayed and its
\* Backtrace is resolved, while the other's is still unresolved
C18_Witness ==
    \E e1, e2 \in DOMAIN errs :
        /\ errs[e1].alive /\ errs[e1].parent = 0 /\ errs[e1].backtrace # None
        /\ errs[e2].alive /\ errs[e2].parent = 0 /\ errs[e2].backtrace # None
        /\ errs[e1].backtrace # errs[e2].backtrace
        /\ shown[e1] # <<>>
        /\ arcs[errs[e1].backtrace[1]].inner.string # None
        /\ arcs[errs[e2].backtrace[1]].inner.string = None
        /\ arcs[errs[e2].backtrace[1]].resolves = 0

\* the cell after Debug, then Display, and what the Display wrote
DebugThenDisplay(cell, sinkOk) ==
    LET d == BacktraceDebugFmt(cell, sinkOk)
    IN  [first |-> d, second |-> BacktraceDisplay(d.cell, TRUE)]

\* the cell after Display, then Debug, and what the Debug wrote
DisplayThenDebug(cell, sinkOk) ==
    LET d == BacktraceDisplay(cell, sinkOk)
    IN  [first |-> d, second |-> BacktraceDebugFmt(d.cell, TRUE)]

\* C19: on an unresolved Backtrace, Debug (of the Backtrace or of an error that
\* holds it, whether or not the sink takes its output) resolves the snapshot
\* and stores its text, and a Display after it writes exactly that text and
\* leaves the cell alone; Display resolves and stores likewise, and a Debug
\* after it shows the stored text and leaves the cell alone. A Debug call that
\* found a Backtrace unresolved is a step that stores the string; one that
\* found the string stored changes nothing.
C19_DebugResolves ==
    /\ [](\A a \in Live, sinkOk \in BOOLEAN :
              arcs[a].inner.string = None =>
                  LET text == BacktraceDebug(resolve(arcs[a].inner.backtrace))
                      dd == DebugThenDisplay(arcs[a], sinkOk)
                      pd == DisplayThenDebug(arcs[a], sinkOk)
                  IN  /\ dd.first.cell.inner.string = Some(text)
                      /\ dd.first.cell.resolves = arcs[a].resolves + 1
                      /\ dd.second.out = text
                      /\ dd.second.cell = dd.first.cell
                      /\ pd.first.cell.inner.string = Some(text)
                      /\ pd.first.cell.resolves = arcs[a].resolves + 1
                      /\ Contains(pd.second.out, StrDebug(text))
                      /\ pd.second.cell = pd.first.cell)
    /\ [](\A e \in DOMAIN errs :
              errs[e].backtrace # None =>
                  \A i \in {0} \cup DebugFailures(errs[e]) :
                      LET cell == arcs[errs[e].backtrace[1]]
                          r == debug_fmt(errs[e], i)
                      IN  r.cell # None =>
                              /\ r.cell[1] = BacktraceDebugFmt(cell, TRUE).cell
                              /\ r.cell[1].inner.string # None)
    /\ [][(last' # last /\ last'[1].op = "debug") =>
              /\ UNCHANGED <<errs, strong, shown, rendered, panics>>
              /\ IF last'[1].resolved
                 THEN \E a \in Live :
                          /\ arcs[a].inner.string = None
                          /\ arcs' = [arcs EXCEPT ![a] = BacktraceDebugFmt(arcs[a], TRUE).cell]
                          /\ BacktraceDisplay(arcs'[a], TRUE).out = arcs'[a].inner.string[1]
                          /\ BacktraceDisplay(arcs'[a], TRUE).cell = arcs'[a]
                 ELSE arcs' = arcs]_vars

\* a Debug call has just resolved a Backtrace that two living errors hold
C19_Witness ==
    /\ last # None /\ last[1].op = "debug" /\ last[1].resolved
    /\ \E a \in Live :
           /\ arcs[a].resolves = 1
           /\ arcs[a].inner.string # None
           /\ strong[a] = 2

\* the writes of a Display call on `self` that come before the backtrace
\* section: the payload, and the description suffix if there is one
EarlyWrites(self) == IF self.desc = <<>> THEN {1} ELSE {1, 2}

\* C20: on every living error, a Display call that fails at the write of the
\* payload or of the description suffix returns Err without reaching the
\* Backtrace, and a Display call on an error without a backtrace reaches none
\* whatever happens; a step in which such a failure is returned, or in which
\* an error without a backtrace displays, changes no error, no Backtrace, no
\* strong count and nothing that others have displayed.
C20_EarlyFailureLeavesTrace ==
    /\ [](\A e \in DOMAIN errs :
              errs[e].alive =>
                  /\ \A i \in EarlyWrites(errs[e]) :
                         /\ to_text(errs[e], i).res = "Err"
                         /\ to_text(errs[e], i).cell = None
                  /\ errs[e].backtrace = None =>
                         \A i \in {0} \cup DisplayFailures(errs[e]) :
                             to_text(errs[e], i).cell = None)
    /\ [][(last' # last /\ last'[1].op = "to_text"
              /\ last'[1].stage \in {"err", "desc"}) =>
              /\ last'[1].res = "Err"
              /\ UNCHANGED <<config, errs, arcs, strong, shown, rendered, panics>>]_vars
    /\ [][\A e \in DOMAIN errs :
              (errs[e].backtrace = None /\ shown'[e] \notin {shown[e], <<>>}) =>
                  /\ UNCHANGED <<config, errs, arcs, strong, rendered, panics>>
                  /\ \A o \in DOMAIN errs \ {e} : shown'[o] = shown[o]]_vars

\* the latest Display call failed at the description suffix while the only
\* Backtrace there is, held by an error with a description, is unresolved
C20_Witness ==
    /\ last # None /\ last[1].op = "to_text"
    /\ last[1].stage = "desc" /\ last[1].res = "Err"
    /\ \E e \in DOMAIN errs :
           /\ errs[e].alive /\ errs[e].desc # <<>> /\ errs[e].backtrace # None
    /\ \A a \in DOMAIN arcs :
           /\ strong[a] > 0
           /\ arcs[a].inner.string = None
           /\ arcs[a].resolves = 0
           /\ arcs[a].inner.backtrace.symbols = 0
====
